---------------------------- MODULE Spec2Model ----------------------------
(***************************************************************************)
(* Model of the spotify-mcp playlist pipeline of festival-navigator:       *)
(*   - SpotifyClient._handle_rate_limit and search_track                   *)
(*     (src/spotify-mcp/src/spotify_client.py),                            *)
(*   - the batch resolution engine batch_search_tracks with its fallback   *)
(*     strategy (tools/search.py, declared in src/spotify-mcp/src/server.py*)
(*     and called from tools/playlist.py),                                 *)
(*   - create_playlist_from_search_results, add_tracks_to_playlist and     *)
(*     add_reviewed_tracks (src/spotify-mcp/src/tools/playlist.py).        *)
(*   - import_and_create_playlist (tools/playlist.py), which chains the    *)
(*     batch resolution and the playlist creation,                         *)
(*   - the library fetches get_followed_artists, get_all_saved_tracks      *)
(*     (over get_saved_tracks_paginated) and get_saved_albums with their   *)
(*     cache (spotify_client.py).                                          *)
(* Strings the code inspects (strip, startswith, ==) are sequences of      *)
(* one-character strings; confidences are integer percentages 0..100.      *)
(***************************************************************************)
EXTENDS Integers, Sequences, FiniteSets, TLC

VARIABLES
    \* ---- batch_search_tracks (one batch resolution) ----
    songs,           \* the ordered input list of songs
    song_idx,        \* 1-based index of the song being resolved
    stage,           \* next strategy of the current song
    best,            \* best confidence held for the current song (NoCandidates if none)
    failed,          \* "no", or how a gateway call of the current song raised
    issued,          \* queries issued for the current song: <<[strategy, held, top]>>
    search_results,  \* the report under construction
    raised,          \* history: [pos, outcome] of the songs whose resolution raised
    batch_pc,        \* "idle" | "query" | "record" | "summary" | "done" | "aborted"
    pacing,          \* last gateway event of the batch: "none" | "call" | "pause"
    \* ---- create_playlist_from_search_results ----
    batch_results,       \* the handler's batch_results argument
    include_confidence,  \* the handler's include_confidence argument
    track_uris,          \* the local list track_uris
    track_pos,           \* history: input position of the song of each track_uris entry
    playlist_pc,         \* "idle" | "collect" | "create" | "add" | "returned" | "raised"
    playlist_result,     \* the returned dict
    \* ---- add_reviewed_tracks ----
    rows,            \* the rows csv.DictReader yields
    row_idx,         \* 1-based index of the next row of the loop
    approved_uris,   \* the local list approved_uris
    rejected,        \* the local counter rejected
    custom,          \* the local counter custom
    review_pc,       \* "idle" | "loop" | "finish" | "returned" | "raised"
    review_result,   \* the returned dict
    \* ---- one call through SpotifyClient._handle_rate_limit ----
    retry_resps,     \* the responses received so far, one per attempt
    retry_waits,     \* the sleeps made so far, in seconds
    retry_pc,        \* "idle" | "try" | "returned" | "raised_error" | "raised_max"
    \* ---- add_tracks_to_playlist (tool) ----
    add_uris,        \* the handler's track_uris argument
    add_pc,          \* "idle" | "call" | "returned" | "raised"
    add_result,      \* the returned dict
    \* ---- library fetches of SpotifyClient ----
    collection,      \* "followed_artists" | "saved_tracks" | "saved_albums"
    library,         \* the user's collection on Spotify, in library order
    use_cache,       \* the use_cache argument
    cache,           \* the cache: collection -> Cached(list), or NoEntry
    lib_items,       \* the list accumulated by the fetch
    lib_offset,      \* the offset (cursor) of the next page request
    lib_total,       \* the total reported by the first page (NoTotal before)
    lib_pages,       \* history: the page requests made: <<[offset, items]>>
    save_calls,      \* history: the save_cache calls made: <<[key, value]>>
    lib_pc,          \* "idle" | "start" | "fetch" | "save" | "returned" | "raised"
    \* ---- import_and_create_playlist ----
    import_pc,       \* "idle" | "start" | "search" | "playlist" | "returned"
    import_result,   \* the returned dict
    \* ---- the Spotify account, as seen through SpotifyClient ----
    api_calls        \* log of the successful playlist requests, in order

batchVars    == <<songs, song_idx, stage, best, failed, issued, search_results,
                  raised, batch_pc, pacing>>
playlistVars == <<batch_results, include_confidence, track_uris, track_pos,
                  playlist_pc, playlist_result>>
reviewVars   == <<rows, row_idx, approved_uris, rejected, custom, review_pc,
                  review_result>>
retryVars    == <<retry_resps, retry_waits, retry_pc>>
addVars      == <<add_uris, add_pc, add_result>>
libVars      == <<collection, library, use_cache, cache, lib_items, lib_offset,
                  lib_total, lib_pages, save_calls, lib_pc>>
importVars   == <<import_pc, import_result>>
extraVars    == <<retryVars, addVars, libVars, importVars>>
vars == <<songs, song_idx, stage, best, failed, issued, search_results, raised,
          batch_pc, pacing, batch_results, include_confidence, track_uris, track_pos,
          playlist_pc, playlist_result, rows, row_idx, approved_uris, rejected, custom,
          review_pc, review_result, retry_resps, retry_waits, retry_pc, add_uris,
          add_pc, add_result, collection, library, use_cache, cache, lib_items,
          lib_offset, lib_total, lib_pages, save_calls, lib_pc, import_pc,
          import_result, api_calls>>

-----------------------------------------------------------------------------
(* Bounds of the model *)

MaxSongs == 2
MaxMatches == 3
MaxRows == 3
MaxRetryAfter == 2
MaxUris == 3
MaxLibrary == 3

(* Program constants *)

max_retries == 3
HighThreshold == 90
MediumThreshold == 70
PlaylistLimit == 10000
batch_size == 100
DefaultRetryAfter == 5
PageLimit == 50

-----------------------------------------------------------------------------
(* Strings as sequences of characters *)

TrackPrefix == <<"s","p","o","t","i","f","y",":","t","r","a","c","k",":">>
AlbumPrefix == <<"s","p","o","t","i","f","y",":","a","l","b","u","m",":">>
UriA == TrackPrefix \o <<"A">>
UriB == TrackPrefix \o <<"B">>
UriAlbum == AlbumPrefix \o <<"X">>
StrApprove == <<"a","p","p","r","o","v","e">>
StrReject  == <<"r","e","j","e","c","t">>
StrEmpty   == <<>>
\* Python's None where a string is expected (no character sequence equals it)
None == <<"<None>">>

\* str.startswith(prefix)
StartsWith(s, p) == Len(s) >= Len(p) /\ SubSeq(s, 1, Len(p)) = p

\* str.strip(): drop leading and trailing whitespace
RECURSIVE LStrip(_)
LStrip(s) == IF s # <<>> /\ Head(s) = " " THEN LStrip(Tail(s)) ELSE s
RECURSIVE RStrip(_)
RStrip(s) == IF s # <<>> /\ s[Len(s)] = " " THEN RStrip(SubSeq(s, 1, Len(s) - 1)) ELSE s
Strip(s) == RStrip(LStrip(s))

\* concatenation of a sequence of sequences
RECURSIVE Flatten(_)
Flatten(ss) == IF ss = <<>> THEN <<>> ELSE Head(ss) \o Flatten(Tail(ss))

\* all sequences over S of length 0..n
SeqsUpTo(S, n) == UNION {[1..k -> S] : k \in 0..n}

-----------------------------------------------------------------------------
(* SpotifyClient: rate-limit wrapper and search (spotify_client.py) *)

\* What the Spotify web API answers to one attempt of a request.
Responses == {"ok", "429", "error"}
\* One response per attempt. The wrapper stops at the first response that is
\* not a 429, so the responses to attempts that are never made are left "ok".
ResponseSeqs ==
    {rs \in [1..max_retries -> Responses] :
        \A k \in 1..max_retries :
            (\E j \in 1..(k - 1) : rs[j] # "429") => rs[k] = "ok"}

\* _handle_rate_limit: the loop `for attempt in range(max_retries)`. An attempt
\* that succeeds returns; a 429 sleeps and goes on to the next attempt; any
\* other exception propagates at once; after the loop RuntimeError is raised.
RECURSIVE HandleAttempt(_, _)
HandleAttempt(resps, attempt) ==
    IF attempt > max_retries
    THEN [outcome |-> "max_retries", attempts |-> max_retries]
    ELSE IF resps[attempt] = "ok"
    THEN [outcome |-> "ok", attempts |-> attempt]
    ELSE IF resps[attempt] = "429"
    THEN HandleAttempt(resps, attempt + 1)
    ELSE [outcome |-> "raise", attempts |-> attempt]

handle_rate_limit(resps) == HandleAttempt(resps, 1)

\* search_track: the items of the search, or the exception of the wrapper.
\* The scored candidate list is represented by `top`, the confidence of its
\* best candidate (NoCandidates for an empty list).
NoCandidates == -1
search_track(resps, top) ==
    LET r == handle_rate_limit(resps)
    IN  IF r.outcome = "ok"
        THEN [raised |-> "no", top |-> top]
        ELSE [raised |-> r.outcome, top |-> NoCandidates]

-----------------------------------------------------------------------------
(* Track resolver, fallback strategy and batch engine (tools/search.py) *)

Titles == {"t1", "t2"}
ConfLevels == {0, 69, 70, 89, 90, 100}
TopOutcomes == ConfLevels \cup {NoCandidates}
Tiers == {"high_confidence", "medium_confidence", "low_confidence", "not_found"}

\* Tier of the best candidate held: HIGH (>= 90%), MEDIUM (70-89%),
\* LOW (< 70%), NOT FOUND (no results).
\* (TierOfMutant: the variant with `>` for the High boundary)
TierOfMutant(held) ==
    IF held = NoCandidates THEN "not_found"
    ELSE IF held > HighThreshold THEN "high_confidence"
    ELSE IF held >= MediumThreshold THEN "medium_confidence"
    ELSE "low_confidence"
TierOf(held) ==
    IF held = NoCandidates THEN "not_found"
    ELSE IF held >= HighThreshold THEN "high_confidence"
    ELSE IF held >= MediumThreshold THEN "medium_confidence"
    ELSE "low_confidence"

\* The fallback strategy goes on only while no acceptable match is held.
\* (NeedsFallbackMutant: the variant that escalates until a High match is held)
NeedsFallbackMutant(held) == held = NoCandidates \/ held < HighThreshold
NeedsFallback(held) == held = NoCandidates \/ held < MediumThreshold

\* Candidates of a new query are merged with the ones held, keeping the
\* highest-scored instance.
Merge(held, top) == IF top > held THEN top ELSE held

\* A gateway error of one song is caught by the batch loop.
\* (OnResolverFailureMutant: the variant that lets the error end the batch)
OnResolverFailureMutant == "aborted"
OnResolverFailure == "record"

\* After each gateway call the batch pauses for delay_seconds before it goes on.
\* (AfterGatewayCallMutant: the variant that goes on without the pause)
AfterGatewayCallMutant == "call"
AfterGatewayCall == "pause"

\* The report entry of a resolved (or failed) song.
Entry(pos, song, held, err) ==
    [pos |-> pos, song |-> song,
     tier |-> IF err # "no" THEN "not_found" ELSE TierOf(held),
     confidence |-> IF err # "no" THEN NoCandidates ELSE held,
     error |-> err]

\* Appending an entry to the report and to the list of its tier.
\* (RecordedMutant: the variant that leaves not-found songs out of the report)
RecordedMutant(sr, e) ==
    IF e.tier = "not_found" THEN sr
    ELSE [sr EXCEPT !.results = Append(@, e), ![e.tier] = Append(@, e)]
Recorded(sr, e) ==
    [sr EXCEPT !.results = Append(@, e), ![e.tier] = Append(@, e)]

\* The aggregate counts of a report.
\* (SummaryMutant: the variant whose total counts the matched songs only)
SummaryMutant(sr) ==
    [high_confidence |-> Len(sr.high_confidence),
     medium_confidence |-> Len(sr.medium_confidence),
     low_confidence |-> Len(sr.low_confidence),
     not_found |-> Len(sr.not_found),
     total |-> Len(sr.results) - Len(sr.not_found)]
Summary(sr) ==
    [high_confidence |-> Len(sr.high_confidence),
     medium_confidence |-> Len(sr.medium_confidence),
     low_confidence |-> Len(sr.low_confidence),
     not_found |-> Len(sr.not_found),
     total |-> Len(sr.results)]

EmptyReport ==
    [results |-> <<>>, high_confidence |-> <<>>, medium_confidence |-> <<>>,
     low_confidence |-> <<>>, not_found |-> <<>>,
     summary |-> [high_confidence |-> 0, medium_confidence |-> 0,
                  low_confidence |-> 0, not_found |-> 0, total |-> 0]]

IdleBatch ==
    /\ songs = <<>> /\ song_idx = 1 /\ stage = "primary" /\ best = NoCandidates
    /\ failed = "no" /\ issued = <<>> /\ search_results = EmptyReport
    /\ raised = {} /\ batch_pc = "idle" /\ pacing = "none"

InitBatchVars ==
    /\ songs \in SeqsUpTo(Titles, MaxSongs)
    /\ song_idx = 1
    /\ stage = "primary"
    /\ best = NoCandidates
    /\ failed = "no"
    /\ issued = <<>>
    /\ search_results = EmptyReport
    /\ raised = {}
    /\ batch_pc = IF songs = <<>> THEN "summary" ELSE "query"
    /\ pacing = "none"

\* One query of the current song: the gateway call and the decision that
\* follows it. `next` is the strategy tried after this one ("none" for the last).
QueryStep(strategy, next) ==
    /\ batch_pc = "query"
    /\ stage = strategy
    /\ \E resps \in ResponseSeqs, top \in TopOutcomes :
         LET r == search_track(resps, top)
             held == Merge(best, r.top)
         IN  /\ issued' = Append(issued, [strategy |-> strategy, held |-> best,
                                              top |-> r.top])
             /\ IF r.raised # "no"
                THEN /\ failed' = r.raised
                     /\ best' = best
                     /\ stage' = stage
                     /\ batch_pc' = OnResolverFailure
                ELSE /\ failed' = "no"
                     /\ best' = held
                     /\ IF next # "none" /\ NeedsFallback(held)
                        THEN stage' = next /\ batch_pc' = "query"
                        ELSE stage' = stage /\ batch_pc' = "record"
    /\ pacing' = AfterGatewayCall
    /\ UNCHANGED <<songs, song_idx, search_results, raised>>
    /\ UNCHANGED <<playlistVars, reviewVars, api_calls>>
    /\ UNCHANGED extraVars

PrimaryQuery    == QueryStep("primary", "title_only")
TitleOnlyQuery  == QueryStep("title_only", "simplified")
SimplifiedQuery == QueryStep("simplified", "none")

\* The song's result is classified and appended; the loop moves on.
RecordResult ==
    /\ batch_pc = "record"
    /\ search_results' =
         Recorded(search_results, Entry(song_idx, songs[song_idx], best, failed))
    /\ raised' = IF failed # "no"
                 THEN raised \cup {[pos |-> song_idx, outcome |-> failed]}
                 ELSE raised
    /\ song_idx' = song_idx + 1
    /\ stage' = "primary"
    /\ best' = NoCandidates
    /\ failed' = "no"
    /\ issued' = <<>>
    /\ batch_pc' = IF song_idx = Len(songs) THEN "summary" ELSE "query"
    /\ UNCHANGED <<songs, pacing>>
    /\ UNCHANGED <<playlistVars, reviewVars, api_calls>>
    /\ UNCHANGED extraVars

\* The aggregate counts are computed and the report is returned.
Summarize ==
    /\ batch_pc = "summary"
    /\ search_results' = [search_results EXCEPT !.summary = Summary(search_results)]
    /\ batch_pc' = "done"
    /\ UNCHANGED <<songs, song_idx, stage, best, failed, issued, raised, pacing>>
    /\ UNCHANGED <<playlistVars, reviewVars, api_calls>>
    /\ UNCHANGED extraVars

\* The value of a result variable before its handler has returned.
NoResult == [pending |-> TRUE]

IdlePlaylist ==
    /\ batch_results = EmptyReport /\ include_confidence = "high"
    /\ track_uris = <<>> /\ track_pos = <<>> /\ playlist_pc = "idle"
    /\ playlist_result = NoResult

IdleReview ==
    /\ rows = <<>> /\ row_idx = 1 /\ approved_uris = <<>> /\ rejected = 0
    /\ custom = 0 /\ review_pc = "idle" /\ review_result = NoResult

\* A missing cache entry, a cache entry holding a list, and the empty cache.
NoEntry == [present |-> FALSE, value |-> <<>>]
Cached(list) == [present |-> TRUE, value |-> list]
NoTotal == -1
EmptyCache == [c \in {"followed_artists", "saved_tracks", "saved_albums"} |-> NoEntry]

IdleRetry == retry_resps = <<>> /\ retry_waits = <<>> /\ retry_pc = "idle"
IdleAdd == add_uris = <<>> /\ add_pc = "idle" /\ add_result = NoResult
IdleLibrary ==
    /\ collection = "saved_tracks" /\ library = <<>> /\ use_cache = TRUE
    /\ cache = EmptyCache /\ lib_items = <<>> /\ lib_offset = 0
    /\ lib_total = NoTotal /\ lib_pages = <<>> /\ save_calls = <<>>
    /\ lib_pc = "idle"
IdleImport == import_pc = "idle" /\ import_result = NoResult

InitBatch ==
    /\ InitBatchVars /\ IdlePlaylist /\ IdleReview /\ api_calls = <<>>
    /\ IdleRetry /\ IdleAdd /\ IdleLibrary /\ IdleImport
NextBatch == PrimaryQuery \/ TitleOnlyQuery \/ SimplifiedQuery \/ RecordResult \/ Summarize
SpecBatch == InitBatch /\ [][NextBatch]_vars

-----------------------------------------------------------------------------
(* Claims about the batch resolution *)

\* C1: the report holds every input song exactly once and in input order:
\* while the batch runs it holds exactly the songs already resolved, the k-th
\* entry is the entry of the k-th input song, and the returned report is as
\* long as the input.
C1_ReportInInputOrder ==
    LET res == search_results.results
    IN  /\ batch_pc \in {"query", "record"} => Len(res) = song_idx - 1
        /\ batch_pc \in {"summary", "done"} => Len(res) = Len(songs)
        /\ \A k \in 1..Len(res) : res[k].pos = k /\ res[k].song = songs[k]

C1_Witness ==
    LET res == search_results.results
    IN  /\ batch_pc = "done"
        /\ Len(songs) >= 2
        /\ songs[1] # songs[2]
        /\ res[1].tier = "not_found"
        /\ res[2].tier = "high_confidence"

\* The tier boundaries as the claim C2 states them.
ClaimedTier(t, c) ==
    CASE t = "high_confidence"   -> c # NoCandidates /\ c >= 90
      [] t = "medium_confidence" -> c # NoCandidates /\ 70 <= c /\ c < 90
      [] t = "low_confidence"    -> c # NoCandidates /\ 0 < c /\ c < 70
      [] t = "not_found"         -> c = NoCandidates

\* The boundaries with Low reaching down to a confidence of 0.
AmendedTier(t, c) ==
    CASE t = "high_confidence"   -> c # NoCandidates /\ c >= 90
      [] t = "medium_confidence" -> c # NoCandidates /\ 70 <= c /\ c < 90
      [] t = "low_confidence"    -> c # NoCandidates /\ 0 <= c /\ c < 70
      [] t = "not_found"         -> c = NoCandidates

\* C2 as stated: every reported outcome is in exactly one of High (>= 90),
\* Medium (70..89), Low (0 < c < 70), NotFound (no candidates), and that one
\* is the tier it is reported in.
C2_Original ==
    \A k \in 1..Len(search_results.results) :
        LET e == search_results.results[k]
        IN  \A t \in Tiers : (e.tier = t) <=> ClaimedTier(t, e.confidence)

\* C2 amended: the tiers partition the outcomes when Low is every candidate
\* confidence below 70, 0 included: each reported outcome satisfies the
\* condition of exactly one tier, the one it is reported in, and it is listed
\* in that tier's list and in no other.
C2_TierPartition ==
    /\ \A k \in 1..Len(search_results.results) :
        LET e == search_results.results[k]
        IN  /\ \A t \in Tiers : (e.tier = t) <=> AmendedTier(t, e.confidence)
            /\ Cardinality({t \in Tiers : AmendedTier(t, e.confidence)}) = 1
            /\ \A t \in Tiers :
                 (e.tier = t) <=>
                    (\E j \in 1..Len(search_results[t]) : search_results[t][j].pos = e.pos)
    /\ \A c \in TopOutcomes : AmendedTier(TierOf(c), c)

C2_Witness ==
    LET res == search_results.results
    IN  /\ batch_pc = "done"
        /\ Len(res) >= 2
        /\ res[1].confidence = 0  /\ res[1].tier = "low_confidence"
        /\ res[2].confidence = 90 /\ res[2].tier = "high_confidence"

C4_FailureIsolated ==
    LET res == search_results.results
    IN  /\ batch_pc # "aborted"
        /\ \A r \in raised :
             /\ r.pos <= Len(res)
             /\ res[r.pos].tier = "not_found"
             /\ res[r.pos].error = r.outcome
             /\ r.outcome \in {"raise", "max_retries"}
        /\ batch_pc \in {"summary", "done"} =>
             \A p \in 1..Len(songs) : \E k \in 1..Len(res) : res[k].pos = p
        /\ failed # "no" => batch_pc = "record"

C4_Witness ==
    LET res == search_results.results
    IN  /\ batch_pc = "done"
        /\ Len(songs) >= 2
        /\ raised = {[pos |-> 1, outcome |-> "max_retries"]}
        /\ res[1].tier = "not_found"
        /\ res[2].tier = "high_confidence"
        /\ res[2].error = "no"

NumberInTier(t) ==
    Cardinality({k \in 1..Len(search_results.results) :
                    search_results.results[k].tier = t})

\* C14: in the returned report each of the four counts is the number of songs
\* reported in that tier, and the four counts add up to total, which is the
\* number of input songs.
C14_SummaryAgrees ==
    batch_pc = "done" =>
        LET sm == search_results.summary
        IN  /\ \A t \in Tiers :
                /\ sm[t] = NumberInTier(t)
                /\ sm[t] = Len(search_results[t])
            /\ sm.high_confidence + sm.medium_confidence + sm.low_confidence
                    + sm.not_found = sm.total
            /\ sm.total = Len(songs)

C14_Witness ==
    /\ batch_pc = "done"
    /\ search_results.summary.total = 2
    /\ search_results.summary.not_found = 1
    /\ search_results.summary.medium_confidence = 1

-----------------------------------------------------------------------------
(* Playlist tools (tools/playlist.py) and SpotifyClient playlist calls *)

\* add_tracks_to_playlist (tool), line 61: `uri and uri.startswith("spotify:track:")`
\* (IsValidUriMutant: the variant that only drops the empty references)
IsValidUriMutant(uri) == uri # StrEmpty /\ uri # None
IsValidUri(uri) == uri # StrEmpty /\ uri # None /\ StartsWith(uri, TrackPrefix)

\* SpotifyClient.add_tracks_to_playlist: track_uris[i : i + batch_size] for
\* i in range(0, total, batch_size)
\* (BatchesMutant: the variant whose slices end one element too late)
BatchesMutant(uris) ==
    LET total == Len(uris)
        n == (total + batch_size - 1) \div batch_size
    IN  [j \in 1..n |->
            SubSeq(uris, (j - 1) * batch_size + 1,
                   IF j * batch_size + 1 < total THEN j * batch_size + 1 ELSE total)]
Batches(uris) ==
    LET total == Len(uris)
        n == (total + batch_size - 1) \div batch_size
    IN  [j \in 1..n |->
            SubSeq(uris, (j - 1) * batch_size + 1,
                   IF j * batch_size < total THEN j * batch_size ELSE total)]

AddItemsCalls(batches) ==
    [j \in 1..Len(batches) |-> [op |-> "playlist_add_items", items |-> batches[j]]]

\* add_tracks_to_playlist (tool) on top of the client: the invalid references
\* are dropped; with none left nothing is sent; otherwise the batches are sent
\* one by one through _handle_rate_limit. fail_at = 0: every request succeeds;
\* fail_at = k: request k raises, after requests 1..k-1 were made.
add_tracks_to_playlist(uris, fail_at) ==
    LET valid_uris == SelectSeq(uris, IsValidUri)
        batches == Batches(valid_uris)
    IN  IF valid_uris = <<>>
        THEN [raised |-> FALSE, calls |-> <<>>,
              result |-> [success |-> FALSE, error |-> "No valid track URIs provided",
                          tracks_added |-> 0]]
        ELSE IF fail_at = 0 \/ fail_at > Len(batches)
        THEN [raised |-> FALSE, calls |-> AddItemsCalls(batches),
              result |-> [success |-> TRUE, tracks_added |-> Len(valid_uris)]]
        ELSE [raised |-> TRUE, calls |-> AddItemsCalls(SubSeq(batches, 1, fail_at - 1)),
              result |-> NoResult]

\* The requests add_tracks_to_playlist can make for a list: 0 .. number of batches
FailPoints(uris) == 0..Len(Batches(SelectSeq(uris, IsValidUri)))

\* The references sent to Spotify so far, in order.
SentUris == Flatten([j \in 1..Len(SelectSeq(api_calls, LAMBDA c : c.op = "playlist_add_items"))
                      |-> SelectSeq(api_calls, LAMBDA c : c.op = "playlist_add_items")[j].items])
PlaylistsCreated == Len(SelectSeq(api_calls, LAMBDA c : c.op = "user_playlist_create"))

IncludeValues == {"high", "high_medium", "all", "medium"}
MatchUris == {UriA, UriB}

\* create_playlist_from_search_results, lines 102-115: the matches whose uri
\* is collected, in the order they are appended.
\* (CollectMatchesMutant: the variant in which "high_medium" also takes low)
CollectMatchesMutant(br, inc) ==
    (IF inc \in {"high", "high_medium", "all"} THEN br.high_confidence ELSE <<>>)
    \o (IF inc \in {"high_medium", "all"} THEN br.medium_confidence ELSE <<>>)
    \o (IF inc \in {"high_medium", "all"} THEN br.low_confidence ELSE <<>>)
\* (CollectMatchesMutantDefault: the variant in which a value that is none of
\* the three takes the high-confidence matches)
CollectMatchesMutantDefault(br, inc) ==
    (IF inc \notin {"high_medium", "all"} \/ inc \in {"high_medium", "all"}
     THEN br.high_confidence ELSE <<>>)
    \o (IF inc \in {"high_medium", "all"} THEN br.medium_confidence ELSE <<>>)
    \o (IF inc = "all" THEN br.low_confidence ELSE <<>>)
CollectMatches(br, inc) ==
    (IF inc \in {"high", "high_medium", "all"} THEN br.high_confidence ELSE <<>>)
    \o (IF inc \in {"high_medium", "all"} THEN br.medium_confidence ELSE <<>>)
    \o (IF inc = "all" THEN br.low_confidence ELSE <<>>)

UrisOf(matches) == [k \in 1..Len(matches) |-> matches[k].uri]
PosOf(matches) == [k \in 1..Len(matches) |-> matches[k].pos]

\* line 124: `if len(track_uris) > 10000`
\* (SizeExceededMutant: the variant with `>=`)
SizeExceededMutant(uris) == Len(uris) >= PlaylistLimit
SizeExceeded(uris) == Len(uris) > PlaylistLimit

\* lines 142-150
Skipped(br, inc) ==
    [medium |-> IF inc = "high" THEN Len(br.medium_confidence) ELSE 0,
     low |-> IF inc # "all" THEN Len(br.low_confidence) ELSE 0,
     not_found |-> Len(br.not_found)]

\* A result of batch_search_tracks for n songs: each song is in the list of
\* its tier, each list in input order; a match carries its track uri.
ResultsOf(n, tier, uri) ==
    LET all == [k \in 1..n |-> [pos |-> k, tier |-> tier[k], uri |-> uri[k]]]
        InTier(t) == SelectSeq(all, LAMBDA e : e.tier = t)
    IN  [high_confidence |-> InTier("high_confidence"),
         medium_confidence |-> InTier("medium_confidence"),
         low_confidence |-> InTier("low_confidence"),
         not_found |-> InTier("not_found")]

SmallResults ==
    UNION {{ResultsOf(n, tier, uri) : tier \in [1..n -> Tiers], uri \in [1..n -> MatchUris]}
            : n \in 0..MaxMatches}

\* A batch at the playlist size limit: PlaylistLimit high-confidence matches
\* followed by one medium-confidence match.
LargeResults ==
    [high_confidence |->
        [k \in 1..PlaylistLimit |-> [pos |-> k, tier |-> "high_confidence", uri |-> UriA]],
     medium_confidence |->
        <<[pos |-> PlaylistLimit + 1, tier |-> "medium_confidence", uri |-> UriB]>>,
     low_confidence |-> <<>>,
     not_found |-> <<>>]

InitPlaylistVars ==
    /\ batch_results \in SmallResults \cup {LargeResults}
    /\ include_confidence \in IncludeValues
    /\ track_uris = <<>>
    /\ track_pos = <<>>
    /\ playlist_pc = "collect"
    /\ playlist_result = NoResult

\* lines 102-129: collect the uris, return early on an empty or oversized list
Collect ==
    /\ playlist_pc = "collect"
    /\ LET matches == CollectMatches(batch_results, include_confidence)
           uris == UrisOf(matches)
       IN  /\ track_uris' = uris
           /\ track_pos' = PosOf(matches)
           /\ IF uris = <<>>
              THEN /\ playlist_result' =
                        [success |-> FALSE,
                         error |-> "No tracks to add based on confidence filter"]
                   /\ playlist_pc' = "returned"
              ELSE IF SizeExceeded(uris)
              THEN /\ playlist_result' =
                        [success |-> FALSE, error |-> "Too many tracks",
                         suggestion |-> "Split into multiple playlists"]
                   /\ playlist_pc' = "returned"
              ELSE /\ playlist_result' = playlist_result
                   /\ playlist_pc' = "create"
    /\ UNCHANGED <<batch_results, include_confidence, api_calls>>
    /\ UNCHANGED <<batchVars, reviewVars>>
    /\ UNCHANGED extraVars

\* line 132: create_playlist -> SpotifyClient.create_playlist: current_user and
\* user_playlist_create, each through _handle_rate_limit
CreatePlaylist ==
    /\ playlist_pc = "create"
    /\ \E r1 \in ResponseSeqs, r2 \in ResponseSeqs :
         IF handle_rate_limit(r1).outcome = "ok" /\ handle_rate_limit(r2).outcome = "ok"
         THEN /\ api_calls' = Append(api_calls, [op |-> "user_playlist_create"])
              /\ playlist_pc' = "add"
         ELSE /\ api_calls' = api_calls
              /\ playlist_pc' = "raised"
    /\ UNCHANGED <<batch_results, include_confidence, track_uris, track_pos,
                   playlist_result>>
    /\ UNCHANGED <<batchVars, reviewVars>>
    /\ UNCHANGED extraVars

\* lines 135-151: add the tracks and return
AddTracks ==
    /\ playlist_pc = "add"
    /\ \E fail_at \in FailPoints(track_uris) :
         LET r == add_tracks_to_playlist(track_uris, fail_at)
         IN  /\ api_calls' = api_calls \o r.calls
             /\ IF r.raised
                THEN /\ playlist_pc' = "raised"
                     /\ playlist_result' = playlist_result
                ELSE /\ playlist_pc' = "returned"
                     /\ playlist_result' =
                          [success |-> TRUE, playlist |-> "created",
                           tracks_added |-> r.result.tracks_added,
                           confidence_filter |-> include_confidence,
                           skipped |-> Skipped(batch_results, include_confidence)]
    /\ UNCHANGED <<batch_results, include_confidence, track_uris, track_pos>>
    /\ UNCHANGED <<batchVars, reviewVars>>
    /\ UNCHANGED extraVars

InitPlaylist ==
    /\ IdleBatch /\ InitPlaylistVars /\ IdleReview /\ api_calls = <<>>
    /\ IdleRetry /\ IdleAdd /\ IdleLibrary /\ IdleImport
NextPlaylist == Collect \/ CreatePlaylist \/ AddTracks
SpecPlaylist == InitPlaylist /\ [][NextPlaylist]_vars

-----------------------------------------------------------------------------
(* Claims about create_playlist_from_search_results *)

Count(u, seq) == Len(SelectSeq(seq, LAMBDA x : x = u))
SameRefs(a, b) == Len(a) = Len(b) /\ \A u \in MatchUris : Count(u, a) = Count(u, b)
Elems(seq) == {seq[k] : k \in 1..Len(seq)}
Collected == playlist_pc \in {"create", "add", "returned", "raised"}
SizeLimitError ==
    [success |-> FALSE, error |-> "Too many tracks",
     suggestion |-> "Split into multiple playlists"]

\* C5: with more than 10,000 selected references the handler returns the
\* size-limit error with the suggestion to split and has made no Spotify
\* request (no playlist created, no track added); with exactly 10,000 it does
\* not return the size-limit error: it goes on to create the playlist, and if
\* it returns it reports the 10,000 tracks added.
C5_SizeLimit ==
    Collected =>
        /\ Len(track_uris) > 10000 =>
             /\ playlist_pc = "returned"
             /\ playlist_result = SizeLimitError
             /\ api_calls = <<>>
        /\ Len(track_uris) = 10000 =>
             /\ playlist_result # SizeLimitError
             /\ playlist_pc = "returned" =>
                  /\ playlist_result.success
                  /\ playlist_result.tracks_added = 10000
                  /\ PlaylistsCreated = 1
                  /\ Len(SentUris) = 10000

C5_Witness ==
    /\ playlist_pc = "returned"
    /\ Len(track_uris) = 10001
    /\ playlist_result = SizeLimitError
    /\ PlaylistsCreated = 0
    /\ SentUris = <<>>

\* C6: the cutoff selects exactly the promised tiers: "high" the references of
\* the high-confidence matches, "high_medium" those of high and medium, "all"
\* those of high, medium and low (as many of each reference, and the songs at
\* the same input positions); no not_found song is among them; and on success
\* exactly the selected references are the ones sent to the playlist.
C6_TierCutoff ==
    Collected =>
        LET br == batch_results
            sel == (IF include_confidence \in {"high", "high_medium", "all"}
                    THEN br.high_confidence ELSE <<>>)
                   \o (IF include_confidence \in {"high_medium", "all"}
                       THEN br.medium_confidence ELSE <<>>)
                   \o (IF include_confidence = "all" THEN br.low_confidence ELSE <<>>)
        IN  /\ include_confidence = "high" =>
                 SameRefs(track_uris, UrisOf(br.high_confidence))
            /\ include_confidence = "high_medium" =>
                 SameRefs(track_uris,
                          UrisOf(br.high_confidence) \o UrisOf(br.medium_confidence))
            /\ include_confidence = "all" =>
                 SameRefs(track_uris,
                          UrisOf(br.high_confidence) \o UrisOf(br.medium_confidence)
                            \o UrisOf(br.low_confidence))
            /\ Elems(track_pos) = Elems(PosOf(sel))
            /\ Elems(track_pos) \cap Elems(PosOf(br.not_found)) = {}
            /\ (playlist_pc = "returned" /\ playlist_result.success) =>
                 SameRefs(SentUris, track_uris)

C6_Witness ==
    /\ playlist_pc = "returned"
    /\ include_confidence = "high_medium"
    /\ Len(batch_results.high_confidence) = 1
    /\ Len(batch_results.medium_confidence) = 1
    /\ Len(batch_results.low_confidence) = 1
    /\ playlist_result.success
    /\ playlist_result.tracks_added = 2
    /\ Len(SentUris) = 2

Increasing(pos) == \A k \in 1..(Len(pos) - 1) : pos[k] < pos[k + 1]

\* The references `uris` of the songs at the distinct input positions `pos`,
\* rearranged into input order.
InSourceOrder(uris, pos) ==
    IF Increasing(pos) THEN uris
    ELSE [r \in 1..Len(pos) |->
            uris[CHOOSE k \in 1..Len(pos) :
                    Cardinality({j \in 1..Len(pos) : pos[j] < pos[k]}) + 1 = r]]

\* C10 as stated: the references are added in source order, across tiers too:
\* the list collected is the list of the accepted songs' references in the
\* order of the batch input, duplicates kept, and on success that list is
\* what is sent.
C10_SourceOrder ==
    Collected =>
        /\ track_uris = InSourceOrder(track_uris, track_pos)
        /\ (playlist_pc = "returned" /\ playlist_result.success) => SentUris = track_uris

\* The filter selects no track: the value is none of the three, or the tiers
\* it names hold no match.
SelectsNothing ==
    \/ include_confidence \notin {"high", "high_medium", "all"}
    \/ include_confidence = "high" /\ batch_results.high_confidence = <<>>
    \/ /\ include_confidence = "high_medium"
       /\ batch_results.high_confidence = <<>>
       /\ batch_results.medium_confidence = <<>>
    \/ /\ include_confidence = "all"
       /\ batch_results.high_confidence = <<>>
       /\ batch_results.medium_confidence = <<>>
       /\ batch_results.low_confidence = <<>>

\* C17: when the filter selects no track the handler has returned
\* success = false with an error, and no playlist was created and no track
\* was added.
C17_NothingSelected ==
    Collected /\ SelectsNothing =>
        /\ playlist_pc = "returned"
        /\ playlist_result.success = FALSE
        /\ "error" \in DOMAIN playlist_result
        /\ playlist_result # SizeLimitError
        /\ api_calls = <<>>

\* An unknown filter value over a batch that has high-confidence matches.
C17_Witness ==
    /\ playlist_pc = "returned"
    /\ include_confidence = "medium"
    /\ batch_results.high_confidence # <<>>
    /\ batch_results.medium_confidence # <<>>
    /\ playlist_result.success = FALSE
    /\ api_calls = <<>>

-----------------------------------------------------------------------------
(* add_reviewed_tracks (tools/playlist.py) *)

StrApproveSpaced == <<" ">> \o StrApprove \o <<" ">>
StrApproveCased  == <<"A","p","p","r","o","v","e">>
StrBlank == <<" ">>

\* The rows of the reviewed CSV, as csv.DictReader yields them: the action and
\* spotify_uri columns. A row shorter than the header has None for the
\* columns it lacks.
ReviewRows ==
    { [action |-> StrApprove,       spotify_uri |-> UriA],
      [action |-> StrApproveSpaced, spotify_uri |-> UriB],
      [action |-> StrApprove,       spotify_uri |-> StrEmpty],
      [action |-> StrApprove,       spotify_uri |-> UriAlbum],
      [action |-> StrReject,        spotify_uri |-> StrEmpty],
      [action |-> StrEmpty,         spotify_uri |-> UriA],
      [action |-> StrBlank,         spotify_uri |-> UriA],
      [action |-> StrApproveCased,  spotify_uri |-> UriA],
      [action |-> UriB,             spotify_uri |-> UriA],
      [action |-> None,             spotify_uri |-> UriA] }

\* lines 236-246: the body of `for row in reader`, on the locals
\* loc = [approved_uris, rejected, custom]. row.get("action", "").strip()
\* raises AttributeError when the action is None.
\* (ProcessRowMutantCustom: the variant in which a replacement action adds the
\* row's spotify_uri; ProcessRowMutantBlank: the variant in which a blank
\* action approves)
ProcessRowMutantCustom(row, loc) ==
    IF row.action = None THEN [loc EXCEPT !.raised = TRUE]
    ELSE LET action == Strip(row.action)
         IN  IF action = StrApprove
             THEN IF row.spotify_uri # StrEmpty /\ row.spotify_uri # None
                  THEN [loc EXCEPT !.approved_uris = Append(@, row.spotify_uri)]
                  ELSE loc
             ELSE IF action = StrReject \/ action = StrEmpty
             THEN [loc EXCEPT !.rejected = @ + 1]
             ELSE IF StartsWith(action, TrackPrefix)
             THEN [loc EXCEPT !.approved_uris = Append(@, row.spotify_uri),
                              !.custom = @ + 1]
             ELSE loc
ProcessRowMutantBlank(row, loc) ==
    IF row.action = None THEN [loc EXCEPT !.raised = TRUE]
    ELSE LET action == Strip(row.action)
         IN  IF action = StrApprove \/ action = StrEmpty
             THEN IF row.spotify_uri # StrEmpty /\ row.spotify_uri # None
                  THEN [loc EXCEPT !.approved_uris = Append(@, row.spotify_uri)]
                  ELSE loc
             ELSE IF action = StrReject
             THEN [loc EXCEPT !.rejected = @ + 1]
             ELSE IF StartsWith(action, TrackPrefix)
             THEN [loc EXCEPT !.approved_uris = Append(@, action),
                              !.custom = @ + 1]
             ELSE loc
ProcessRow(row, loc) ==
    IF row.action = None THEN [loc EXCEPT !.raised = TRUE]
    ELSE LET action == Strip(row.action)
         IN  IF action = StrApprove
             THEN IF row.spotify_uri # StrEmpty /\ row.spotify_uri # None
                  THEN [loc EXCEPT !.approved_uris = Append(@, row.spotify_uri)]
                  ELSE loc
             ELSE IF action = StrReject \/ action = StrEmpty
             THEN [loc EXCEPT !.rejected = @ + 1]
             ELSE IF StartsWith(action, TrackPrefix)
             THEN [loc EXCEPT !.approved_uris = Append(@, action),
                              !.custom = @ + 1]
             ELSE loc

InitReviewVars ==
    /\ rows \in SeqsUpTo(ReviewRows, MaxRows)
    /\ row_idx = 1
    /\ approved_uris = <<>>
    /\ rejected = 0
    /\ custom = 0
    /\ review_pc = "loop"
    /\ review_result = NoResult

\* One iteration of the loop over the rows.
ReviewRow ==
    /\ review_pc = "loop"
    /\ row_idx <= Len(rows)
    /\ LET loc == ProcessRow(rows[row_idx],
                             [approved_uris |-> approved_uris, rejected |-> rejected,
                              custom |-> custom, raised |-> FALSE])
       IN  /\ approved_uris' = loc.approved_uris
           /\ rejected' = loc.rejected
           /\ custom' = loc.custom
           /\ review_pc' = IF loc.raised THEN "raised" ELSE "loop"
           /\ row_idx' = IF loc.raised THEN row_idx ELSE row_idx + 1
    /\ UNCHANGED <<rows, review_result, api_calls>>
    /\ UNCHANGED <<batchVars, playlistVars>>
    /\ UNCHANGED extraVars

\* lines 248-264: after the loop
ReviewFinish ==
    /\ review_pc = "loop"
    /\ row_idx > Len(rows)
    /\ IF approved_uris = <<>>
       THEN /\ review_result' =
                 [success |-> FALSE, tracks_added |-> 0, rejected |-> rejected,
                  error |-> "No tracks approved in review"]
            /\ review_pc' = "returned"
            /\ api_calls' = api_calls
       ELSE \E fail_at \in FailPoints(approved_uris) :
              LET r == add_tracks_to_playlist(approved_uris, fail_at)
              IN  /\ api_calls' = api_calls \o r.calls
                  /\ IF r.raised
                     THEN /\ review_pc' = "raised"
                          /\ review_result' = review_result
                     ELSE /\ review_pc' = "returned"
                          /\ review_result' =
                               [success |-> TRUE,
                                tracks_added |-> r.result.tracks_added,
                                custom_replacements |-> custom,
                                rejected |-> rejected,
                                playlist_id |-> "playlist_id"]
    /\ UNCHANGED <<rows, row_idx, approved_uris, rejected, custom>>
    /\ UNCHANGED <<batchVars, playlistVars>>
    /\ UNCHANGED extraVars

InitReview ==
    /\ IdleBatch /\ IdlePlaylist /\ InitReviewVars /\ api_calls = <<>>
    /\ IdleRetry /\ IdleAdd /\ IdleLibrary /\ IdleImport
NextReview == ReviewRow \/ ReviewFinish
SpecReview == InitReview /\ [][NextReview]_vars

-----------------------------------------------------------------------------
(* Claims about add_reviewed_tracks *)

\* The rows the loop has gone through.
Reviewed == IF review_pc = "idle" THEN <<>> ELSE SubSeq(rows, 1, row_idx - 1)
LoopDone == review_pc \in {"loop", "returned"} /\ row_idx > Len(rows)

\* The three kinds of action C7 names, and what each contributes.
IsApprove(row) == row.action = StrApprove
IsReject(row) == row.action = StrReject
IsReplacement(row) == row.action # None /\ StartsWith(row.action, TrackPrefix)
Contribution(row) ==
    IF IsApprove(row)
    THEN IF row.spotify_uri = StrEmpty THEN <<>> ELSE <<row.spotify_uri>>
    ELSE IF IsReplacement(row) THEN <<row.action>>
    ELSE <<>>

ExampleRows ==
    << [action |-> StrApprove, spotify_uri |-> UriA],
       [action |-> StrReject,  spotify_uri |-> StrEmpty],
       [action |-> UriB,       spotify_uri |-> UriA] >>

\* C7: for rows whose actions are "approve", "reject" or a track reference,
\* the accepted list is, in row order, the spotify_uri of each approve row and
\* the action of each replacement row; rejected counts the reject rows; and on
\* success the accepted track references are what is sent. For the rows
\* [approve A, reject, spotify:track:B] the accepted list is [A, B] and
\* rejected is 1.
C7_ReviewMapping ==
    /\ (\A k \in 1..Len(Reviewed) :
            IsApprove(Reviewed[k]) \/ IsReject(Reviewed[k]) \/ IsReplacement(Reviewed[k]))
       => /\ approved_uris = Flatten([k \in 1..Len(Reviewed) |-> Contribution(Reviewed[k])])
          /\ rejected = Len(SelectSeq(Reviewed, IsReject))
          /\ custom = Len(SelectSeq(Reviewed, IsReplacement))
          /\ (review_pc = "returned" /\ review_result.success) =>
                /\ SentUris = SelectSeq(approved_uris, IsValidUri)
                /\ review_result.rejected = rejected
    /\ (rows = ExampleRows /\ LoopDone) =>
          /\ approved_uris = <<UriA, UriB>>
          /\ rejected = 1
          /\ review_pc = "returned" =>
                /\ review_result.success
                /\ review_result.rejected = 1
                /\ review_result.tracks_added = 2
                /\ SentUris = <<UriA, UriB>>

C7_Witness ==
    /\ review_pc = "returned"
    /\ rows = ExampleRows
    /\ approved_uris = <<UriA, UriB>>
    /\ review_result.success
    /\ review_result.rejected = 1
    /\ SentUris = <<UriA, UriB>>

\* A row whose trimmed action is "approve" or starts with "spotify:track:".
Qualifies(row) ==
    /\ row.action # None
    /\ \/ Strip(row.action) = StrApprove
       \/ StartsWith(Strip(row.action), TrackPrefix)

\* C8: a row whose trimmed action is neither "approve" nor a track reference
\* adds nothing: the step that reviews it leaves the accepted list and the
\* playlist requests as they were; and nothing is ever sent to the playlist
\* that is not in the accepted list.
C8_FailSafe ==
    /\ [][(review_pc = "loop" /\ row_idx <= Len(rows) /\ ~Qualifies(rows[row_idx]))
            => (approved_uris' = approved_uris /\ api_calls' = api_calls)]_vars
    /\ [](Elems(SentUris) \subseteq Elems(approved_uris))

C8_Witness ==
    /\ review_pc = "returned"
    /\ rows = << [action |-> StrApproveCased,  spotify_uri |-> UriA],
                 [action |-> StrBlank,         spotify_uri |-> UriA],
                 [action |-> StrApproveSpaced, spotify_uri |-> UriB] >>
    /\ approved_uris = <<UriB>>
    /\ review_result.success
    /\ SentUris = <<UriB>>

\* C9 as stated: a row with an unrecognized or blank action is counted like a
\* reject: when the loop is over, rejected is the number of rows whose
\* trimmed action is neither "approve" nor a track reference, so that (every
\* approve row having a spotify_uri) accepted references plus rejected equals
\* the number of rows.
C9_RejectedCountsAll ==
    LoopDone =>
        /\ rejected = Len(SelectSeq(rows, LAMBDA row : ~Qualifies(row)))
        /\ (\A k \in 1..Len(rows) :
                Strip(rows[k].action) = StrApprove => rows[k].spotify_uri # StrEmpty)
           => Len(approved_uris) + rejected = Len(rows)

-----------------------------------------------------------------------------
(* SpotifyClient._handle_rate_limit, attempt by attempt (spotify_client.py) *)

\* The Retry-After header of a 429 response: a number of seconds, or absent.
NoHeader == -1
Headers == {NoHeader} \cup (0..MaxRetryAfter)

\* retry_after = int(e.headers.get("Retry-After", 5)) + 1
\* (RetryWaitMutant: the variant that sleeps for the advised interval only)
RetryWaitMutant(h) == IF h = NoHeader THEN DefaultRetryAfter ELSE h
RetryWait(h) == (IF h = NoHeader THEN DefaultRetryAfter ELSE h) + 1

InitRetryVars == retry_resps = <<>> /\ retry_waits = <<>> /\ retry_pc = "try"

\* return func(*args, **kwargs): the attempt succeeds and its result is returned.
RetryReturn ==
    /\ retry_pc = "try"
    /\ retry_resps' = Append(retry_resps, [kind |-> "ok", retry_after |-> NoHeader])
    /\ retry_pc' = "returned"
    /\ UNCHANGED retry_waits
    /\ UNCHANGED <<batchVars, playlistVars, reviewVars, api_calls>>
    /\ UNCHANGED <<addVars, libVars, importVars>>

\* except SpotifyException with http_status == 429: sleep and take the next
\* turn of `for attempt in range(max_retries)`; when the loop is over,
\* raise RuntimeError("Max retries exceeded for rate limit").
RetryRateLimited ==
    /\ retry_pc = "try"
    /\ \E h \in Headers :
        /\ retry_resps' = Append(retry_resps, [kind |-> "429", retry_after |-> h])
        /\ retry_waits' = Append(retry_waits, RetryWait(h))
    /\ retry_pc' = IF Len(retry_resps) + 1 >= max_retries THEN "raised_max" ELSE "try"
    /\ UNCHANGED <<batchVars, playlistVars, reviewVars, api_calls>>
    /\ UNCHANGED <<addVars, libVars, importVars>>

\* except SpotifyException with another status: `else: raise`.
RetryRaise ==
    /\ retry_pc = "try"
    /\ retry_resps' = Append(retry_resps, [kind |-> "error", retry_after |-> NoHeader])
    /\ retry_pc' = "raised_error"
    /\ UNCHANGED retry_waits
    /\ UNCHANGED <<batchVars, playlistVars, reviewVars, api_calls>>
    /\ UNCHANGED <<addVars, libVars, importVars>>

InitRetry ==
    /\ IdleBatch /\ IdlePlaylist /\ IdleReview /\ api_calls = <<>>
    /\ InitRetryVars /\ IdleAdd /\ IdleLibrary /\ IdleImport
NextRetry == RetryReturn \/ RetryRateLimited \/ RetryRaise
SpecRetry == InitRetry /\ [][NextRetry]_vars

-----------------------------------------------------------------------------
(* Claims about _handle_rate_limit *)

\* The kinds of the responses received, padded to one per possible attempt.
RespKinds ==
    [k \in 1..max_retries |->
        IF k <= Len(retry_resps) THEN retry_resps[k].kind ELSE "ok"]
RateLimited(k) == retry_resps[k].kind = "429"
Outcome ==
    CASE retry_pc = "returned" -> "ok"
      [] retry_pc = "raised_error" -> "raise"
      [] retry_pc = "raised_max" -> "max_retries"
      [] OTHER -> "running"

\* C11: the wrapped call is invoked at most 3 times; each 429 is followed by a
\* wait of Retry-After + 1 seconds (6 s when the header is absent) and by
\* nothing else; an attempt is only made after 429s, so the first success
\* returns with no further attempt; three 429s in a row end the call with an
\* error, so the call is over after at most three attempts.
C11_BoundedRetry ==
    /\ Len(retry_resps) <= 3
    /\ Len(retry_waits) = Cardinality({k \in 1..Len(retry_resps) : RateLimited(k)})
    /\ \A k \in 1..Len(retry_resps) :
        /\ k < Len(retry_resps) => RateLimited(k)
        /\ RateLimited(k) =>
            retry_waits[k] = IF retry_resps[k].retry_after = NoHeader
                             THEN 6
                             ELSE retry_resps[k].retry_after + 1
    /\ retry_pc = "returned" <=>
            (retry_resps # <<>> /\ retry_resps[Len(retry_resps)].kind = "ok")
    /\ retry_pc = "raised_max" <=>
            (Len(retry_resps) = 3 /\ \A k \in 1..3 : RateLimited(k))
    /\ Len(retry_resps) = 3 => retry_pc # "try"
    /\ retry_pc \notin {"idle", "try"} =>
            /\ handle_rate_limit(RespKinds).outcome = Outcome
            /\ handle_rate_limit(RespKinds).attempts = Len(retry_resps)

\* Two 429s, one with and one without the header, and then a success.
C11_Witness ==
    /\ retry_pc = "returned"
    /\ Len(retry_resps) = 3
    /\ retry_resps[1].retry_after = NoHeader
    /\ retry_resps[2].retry_after = MaxRetryAfter

\* C12: a failure other than a 429 is retried: it only surfaces to the caller
\* once the attempts are used up.
C12_TransientRetried ==
    retry_pc = "raised_error" => Len(retry_resps) = max_retries

-----------------------------------------------------------------------------
(* add_tracks_to_playlist, the tool (tools/playlist.py, server.py) *)

\* The references a caller may pass: track uris, a track uri with an empty id,
\* a uri of another kind, the empty string and None.
UriChoices == {UriA, UriB, TrackPrefix, UriAlbum, StrEmpty, None}

\* Lists around one and two full requests: n distinct track uris, and the same
\* list with a uri of another kind in place of its batch_size-th element.
LargeLengths ==
    {batch_size - 1, batch_size, batch_size + 1,
     2 * batch_size - 1, 2 * batch_size, 2 * batch_size + 1}
DistinctUris(n) == [k \in 1..n |-> TrackPrefix \o <<ToString(k)>>]
WithAlbumAt(uris, k) == [uris EXCEPT ![k] = UriAlbum]
LargeInputs ==
    {DistinctUris(n) : n \in LargeLengths}
    \cup {WithAlbumAt(DistinctUris(n), batch_size) : n \in LargeLengths \ {batch_size - 1}}

InitAddVars ==
    /\ add_uris \in SeqsUpTo(UriChoices, MaxUris) \cup LargeInputs
    /\ add_pc = "call"
    /\ add_result = NoResult

\* The tool's handler, lines 60-76: filter, return the error when nothing is
\* left, else hand the valid references to the client, which sends them batch
\* by batch; a request that raises ends the handler with the exception.
AddTracksTool ==
    /\ add_pc = "call"
    /\ \E fail_at \in FailPoints(add_uris) :
         LET r == add_tracks_to_playlist(add_uris, fail_at)
         IN  /\ api_calls' = api_calls \o r.calls
             /\ add_result' = r.result
             /\ add_pc' = IF r.raised THEN "raised" ELSE "returned"
    /\ UNCHANGED add_uris
    /\ UNCHANGED <<batchVars, playlistVars, reviewVars>>
    /\ UNCHANGED <<retryVars, libVars, importVars>>

InitAdd ==
    /\ IdleBatch /\ IdlePlaylist /\ IdleReview /\ api_calls = <<>>
    /\ IdleRetry /\ InitAddVars /\ IdleLibrary /\ IdleImport
NextAdd == AddTracksTool
SpecAdd == InitAdd /\ [][NextAdd]_vars

-----------------------------------------------------------------------------
(* Claims about add_tracks_to_playlist *)

\* The references the tool hands to the client, and the requests made.
Forwarded == SelectSeq(add_uris, IsValidUri)
Requests == [j \in 1..Len(api_calls) |-> api_calls[j].items]
IsPrefixOf(s, t) == Len(s) <= Len(t) /\ s = SubSeq(t, 1, Len(s))

\* C15: for the n references it is given the client makes ceil(n/100)
\* requests, each but the last of exactly 100 references and the last of 1 to
\* 100, whose concatenation in send order is the given list; when a request
\* fails, the requests made before it are full and hold the list's beginning.
C15_Batching ==
    LET n == Len(Forwarded)
    IN  /\ add_pc = "returned" =>
            /\ Len(Requests) = (n + 99) \div 100
            /\ \A j \in 1..Len(Requests) :
                /\ j < Len(Requests) => Len(Requests[j]) = 100
                /\ Len(Requests[j]) \in 1..100
            /\ Flatten(Requests) = Forwarded
        /\ add_pc = "raised" =>
            /\ Len(Requests) < (n + 99) \div 100
            /\ \A j \in 1..Len(Requests) : Len(Requests[j]) = 100
            /\ IsPrefixOf(Flatten(Requests), Forwarded)
        /\ \A j \in 1..Len(api_calls) : api_calls[j].op = "playlist_add_items"

\* 201 references went out in three requests.
C15_Witness ==
    /\ add_pc = "returned"
    /\ Len(add_uris) = 201
    /\ Len(Requests) = 3
    /\ Len(Requests[3]) = 1

\* A reference the claim C19 calls valid.
IsTrackRef(u) ==
    /\ u # None /\ u # StrEmpty
    /\ Len(u) >= Len(TrackPrefix)
    /\ SubSeq(u, 1, Len(TrackPrefix)) = TrackPrefix

\* C19: the tool forwards exactly the input references that are non-empty and
\* start with "spotify:track:", in input order, and reports their number as
\* tracks_added; with no such reference it returns success = false and
\* tracks_added = 0 without a client call.
C19_ForwardsValid ==
    LET valid == SelectSeq(add_uris, IsTrackRef)
    IN  /\ add_pc = "returned" /\ valid # <<>> =>
            /\ Flatten(Requests) = valid
            /\ add_result.success = TRUE
            /\ add_result.tracks_added = Len(valid)
        /\ add_pc = "returned" /\ valid = <<>> =>
            /\ api_calls = <<>>
            /\ add_result.success = FALSE
            /\ add_result.tracks_added = 0
        /\ add_pc = "raised" => valid # <<>> /\ IsPrefixOf(Flatten(Requests), valid)

\* A list with an invalid reference between two valid ones.
C19_Witness ==
    /\ add_pc = "returned"
    /\ add_uris = <<UriB, UriAlbum, UriA>>
    /\ add_result.tracks_added = 2

\* A list with no valid reference.
C19_WitnessNone ==
    /\ add_pc = "returned"
    /\ add_uris = <<UriAlbum, StrEmpty, None>>
    /\ add_result.success = FALSE

-----------------------------------------------------------------------------
(* Library fetches of SpotifyClient and their cache (spotify_client.py) *)

Collections == {"followed_artists", "saved_tracks", "saved_albums"}

\* The user's collection: n items, numbered in library order. It does not
\* change while it is fetched.
LibrarySizes ==
    (0..MaxLibrary)
    \cup {PageLimit - 1, PageLimit, PageLimit + 1, 2 * PageLimit, 2 * PageLimit + 1}
LibraryOf(n) == [k \in 1..n |-> k]

\* What the cache may hold for a collection before the fetch: nothing, an
\* empty list, or a list of an earlier fetch.
StaleList == <<0>>
CacheValues == {NoEntry, Cached(<<>>), Cached(StaleList)}

\* load_cache(key) followed by `if cached:`: an entry that is a non-empty list.
CacheHit(c, key) == c[key].present /\ c[key].value # <<>>

\* One page of the Spotify web API: `limit` items from `offset` on.
ServerPage(lib, offset, limit) ==
    SubSeq(lib, offset + 1,
           IF offset + limit < Len(lib) THEN offset + limit ELSE Len(lib))

\* `if offset >= total: break`
\* (ExhaustedMutant: the variant with `>`)
ExhaustedMutant(offset, total) == offset > total
Exhausted(offset, total) == offset >= total

\* The lists handed to save_cache after a page: the whole list once the loop
\* is over, nothing before.
\* (SavesAfterPageMutant: the variant that stores the list after every page)
SavesAfterPageMutant(items, last) == <<items>>
SavesAfterPage(items, last) == IF last THEN <<items>> ELSE <<>>

InitLibraryVars ==
    /\ collection \in Collections
    /\ library \in {LibraryOf(n) : n \in LibrarySizes}
    /\ use_cache \in BOOLEAN
    /\ cache \in [Collections -> CacheValues]
    /\ lib_items = <<>>
    /\ lib_offset = 0
    /\ lib_total = NoTotal
    /\ lib_pages = <<>>
    /\ save_calls = <<>>
    /\ lib_pc = "start"

\* `if use_cache: cached = load_cache(key); if cached: return cached`,
\* else the empty list and the first offset.
LibStart ==
    /\ lib_pc = "start"
    /\ IF use_cache /\ CacheHit(cache, collection)
       THEN lib_items' = cache[collection].value /\ lib_pc' = "returned"
       ELSE lib_items' = <<>> /\ lib_pc' = "fetch"
    /\ UNCHANGED <<collection, library, use_cache, cache, lib_offset, lib_total,
                   lib_pages, save_calls>>
    /\ UNCHANGED <<batchVars, playlistVars, reviewVars, api_calls>>
    /\ UNCHANGED <<retryVars, addVars, importVars>>

\* The page request through _handle_rate_limit raises: the fetch is over.
PageRaises ==
    /\ lib_pc' = "raised"
    /\ UNCHANGED <<lib_items, lib_offset, lib_pages, save_calls, cache>>

\* The state after a page: the list and offset as given; when the page was the
\* last one, the loop is left, save_cache(key, list) is called and the list is
\* returned.
AfterPage(page, items, offset, last) ==
    LET saves == SavesAfterPage(items, last)
    IN  /\ lib_pages' = Append(lib_pages, [offset |-> lib_offset, items |-> page])
        /\ lib_items' = items
        /\ lib_offset' = offset
        /\ save_calls' = save_calls \o
                [j \in 1..Len(saves) |-> [key |-> collection, value |-> saves[j]]]
        /\ cache' = IF saves = <<>> THEN cache
                    ELSE [cache EXCEPT ![collection] = Cached(saves[Len(saves)])]
        /\ lib_pc' = IF last THEN "returned" ELSE "fetch"

\* get_followed_artists, one turn of `while True` (cursor pagination): the
\* page is appended; the loop ends when the page carries no `after` cursor.
FetchArtistsPage ==
    /\ lib_pc = "fetch" /\ collection = "followed_artists"
    /\ \E resps \in ResponseSeqs :
         IF handle_rate_limit(resps).outcome # "ok"
         THEN PageRaises
         ELSE LET page == ServerPage(library, lib_offset, PageLimit)
                  after == lib_offset + Len(page)
              IN  AfterPage(page, lib_items \o page, after, after >= Len(library))
    /\ UNCHANGED <<collection, library, use_cache, lib_total>>
    /\ UNCHANGED <<batchVars, playlistVars, reviewVars, api_calls>>
    /\ UNCHANGED <<retryVars, addVars, importVars>>

\* get_all_saved_tracks over get_saved_tracks_paginated, one turn of the
\* generator's `while True`: total is taken from the first page; an empty page
\* ends the loop; else the page is yielded and appended, the offset advances
\* by its length, and the loop ends when the offset has reached total.
FetchTracksPage ==
    /\ lib_pc = "fetch" /\ collection = "saved_tracks"
    /\ \E resps \in ResponseSeqs :
         IF handle_rate_limit(resps).outcome # "ok"
         THEN PageRaises /\ UNCHANGED lib_total
         ELSE LET page == ServerPage(library, lib_offset, PageLimit)
                  total == IF lib_total = NoTotal THEN Len(library) ELSE lib_total
                  offset == lib_offset + Len(page)
              IN  /\ lib_total' = total
                  /\ AfterPage(page, lib_items \o page, offset,
                               page = <<>> \/ Exhausted(offset, total))
    /\ UNCHANGED <<collection, library, use_cache>>
    /\ UNCHANGED <<batchVars, playlistVars, reviewVars, api_calls>>
    /\ UNCHANGED <<retryVars, addVars, importVars>>

\* get_saved_albums, one turn of `while True`: as for the tracks, with the
\* total read from every page.
FetchAlbumsPage ==
    /\ lib_pc = "fetch" /\ collection = "saved_albums"
    /\ \E resps \in ResponseSeqs :
         IF handle_rate_limit(resps).outcome # "ok"
         THEN PageRaises
         ELSE LET page == ServerPage(library, lib_offset, PageLimit)
                  offset == lib_offset + Len(page)
              IN  AfterPage(page, lib_items \o page, offset,
                            page = <<>> \/ Exhausted(offset, Len(library)))
    /\ UNCHANGED <<collection, library, use_cache, lib_total>>
    /\ UNCHANGED <<batchVars, playlistVars, reviewVars, api_calls>>
    /\ UNCHANGED <<retryVars, addVars, importVars>>

InitLibrary ==
    /\ IdleBatch /\ IdlePlaylist /\ IdleReview /\ api_calls = <<>>
    /\ IdleRetry /\ IdleAdd /\ InitLibraryVars /\ IdleImport
NextLibrary == LibStart \/ FetchArtistsPage \/ FetchTracksPage \/ FetchAlbumsPage
SpecLibrary == InitLibrary /\ [][NextLibrary]_vars

-----------------------------------------------------------------------------
(* Claims about the library fetches *)

\* The fetch has made its last page request and has not failed.
FetchCompleted == lib_pc = "returned" /\ lib_pages # <<>>

\* C16: the cache and the log of save_cache calls change only in the step that
\* completes a fetch, by one save_cache call for the fetched collection with
\* the complete list, which changes no other entry; a fetch in progress and a
\* fetch that failed on a page request have called save_cache not at all, so
\* the entry is as it was; a fetch answered from the cache saves nothing.
C16_SaveAtCompletion ==
    /\ [][(cache' # cache \/ save_calls' # save_calls) =>
            /\ lib_pc = "fetch" /\ lib_pc' = "returned"
            /\ save_calls' = Append(save_calls, [key |-> collection, value |-> library])
            /\ cache' = [cache EXCEPT ![collection] = Cached(library)]
            /\ lib_items' = library]_vars
    /\ [](/\ Len(save_calls) <= 1
          /\ lib_pc \in {"start", "fetch", "raised"} => save_calls = <<>>
          /\ FetchCompleted <=> Len(save_calls) = 1
          /\ FetchCompleted => cache[collection] = Cached(library))

\* A three-page fetch replaced an older entry; and (C16_WitnessFailed) a fetch
\* failed on its third page with two pages already fetched.
C16_Witness ==
    /\ FetchCompleted
    /\ collection = "saved_albums"
    /\ Len(lib_pages) = 3
    /\ save_calls = <<[key |-> "saved_albums", value |-> library]>>
    /\ cache["saved_tracks"] = Cached(StaleList)
C16_WitnessFailed ==
    /\ lib_pc = "raised"
    /\ Len(lib_pages) = 2
    /\ cache[collection] = Cached(StaleList)

\* The generator's page requests: lib_pages, when the tracks are fetched.
PageSize(k) == Len(lib_pages[k].items)
Yielded == Flatten([k \in 1..Len(lib_pages) |-> lib_pages[k].items])
Paginated ==
    /\ lib_pages # <<>> => lib_pages[1].offset = 0
    /\ \A k \in 1..(Len(lib_pages) - 1) :
        /\ PageSize(k) > 0
        /\ lib_pages[k + 1].offset = lib_pages[k].offset + PageSize(k)
        /\ lib_pages[k + 1].offset < Len(library)
    /\ lib_total \in {NoTotal, Len(library)}
    /\ IsPrefixOf(Yielded, library)
    /\ FetchCompleted =>
        /\ Yielded = library
        /\ lib_items = library
        /\ PageSize(Len(lib_pages)) = 0
            \/ lib_pages[Len(lib_pages)].offset + PageSize(Len(lib_pages)) >= lib_total
    /\ lib_pc = "fetch" /\ lib_pages # <<>> =>
        /\ PageSize(Len(lib_pages)) > 0
        /\ lib_offset < Len(library)

\* C20 as stated: the offset starts at 0 and grows by the size of each yielded
\* page, the pages yielded are the library in order, no request follows an
\* empty page or an offset that has reached total, and at most `total` page
\* requests are made.
C20_Original ==
    collection = "saved_tracks" =>
        /\ Paginated
        /\ Len(lib_pages) <= Len(library)

\* C20, amended: as stated, but with one page request made for an empty
\* library: at most max(1, total) page requests are made.
C20_Pagination ==
    collection = "saved_tracks" =>
        /\ Paginated
        /\ Len(lib_pages) <= (IF library = <<>> THEN 1 ELSE Len(library))

\* 101 tracks were fetched in three pages, at offsets 0, 50 and 100.
C20_Witness ==
    /\ collection = "saved_tracks"
    /\ FetchCompleted
    /\ Len(library) = 101
    /\ Len(lib_pages) = 3
    /\ lib_pages[3].offset = 100
\* An empty library was fetched with one request.
C20_WitnessEmpty ==
    /\ collection = "saved_tracks"
    /\ FetchCompleted
    /\ library = <<>>
    /\ Len(lib_pages) = 1

-----------------------------------------------------------------------------
(* import_and_create_playlist (tools/playlist.py) *)

\* `if not songs:` on the list parse_song_list_csv returned
\* (NoSongsMutant: the variant without the check)
NoSongsMutant(parsed) == FALSE
NoSongs(parsed) == parsed = <<>>

\* The track a search match stands for.
UriOfSong(title) == IF title = "t1" THEN UriA ELSE UriB

\* The report of batch_search_tracks as create_playlist_from_search_results
\* reads it: the per-tier lists, each match with its uri.
AsBatchResults(sr) ==
    LET Matches(list) ==
            [k \in 1..Len(list) |->
                [pos |-> list[k].pos, tier |-> list[k].tier,
                 uri |-> UriOfSong(list[k].song)]]
    IN  [high_confidence |-> Matches(sr.high_confidence),
         medium_confidence |-> Matches(sr.medium_confidence),
         low_confidence |-> Matches(sr.low_confidence),
         not_found |-> Matches(sr.not_found)]

NoSongsError ==
    [success |-> FALSE,
     error |-> "No songs found in CSV. Expected columns: title, artist"]

\* The handler is entered with the list parse_song_list_csv made of csv_content.
InitImportVars ==
    /\ songs \in SeqsUpTo(Titles, MaxSongs)
    /\ song_idx = 1 /\ stage = "primary" /\ best = NoCandidates
    /\ failed = "no" /\ issued = <<>> /\ search_results = EmptyReport
    /\ raised = {} /\ batch_pc = "idle" /\ pacing = "none"
    /\ import_pc = "start"
    /\ import_result = NoResult

\* lines 176-186: return the error for an empty list, else enter
\* batch_search_tracks(songs).
ImportStart ==
    /\ import_pc = "start"
    /\ IF NoSongs(songs)
       THEN /\ import_result' = NoSongsError
            /\ import_pc' = "returned"
            /\ batch_pc' = batch_pc
       ELSE /\ import_result' = import_result
            /\ import_pc' = "search"
            /\ batch_pc' = IF songs = <<>> THEN "summary" ELSE "query"
    /\ UNCHANGED <<songs, song_idx, stage, best, failed, issued, search_results,
                   raised, pacing>>
    /\ UNCHANGED <<playlistVars, reviewVars, api_calls>>
    /\ UNCHANGED <<retryVars, addVars, libVars>>

\* lines 189-195: enter create_playlist_from_search_results with the report
\* and the caller's include_confidence.
ImportCreate ==
    /\ import_pc = "search" /\ batch_pc = "done"
    /\ batch_results' = AsBatchResults(search_results)
    /\ include_confidence' \in IncludeValues
    /\ playlist_pc' = "collect"
    /\ import_pc' = "playlist"
    /\ UNCHANGED <<track_uris, track_pos, playlist_result, import_result>>
    /\ UNCHANGED <<batchVars, reviewVars, api_calls>>
    /\ UNCHANGED <<retryVars, addVars, libVars>>

\* lines 197-207: the returned dict.
ImportReturn ==
    /\ import_pc = "playlist" /\ playlist_pc = "returned"
    /\ import_result' =
         [search_summary |-> search_results.summary,
          playlist_result |-> playlist_result,
          needs_review |->
            [medium_confidence |-> IF include_confidence = "high"
                                   THEN search_results.medium_confidence ELSE <<>>,
             low_confidence |-> search_results.low_confidence,
             not_found |-> search_results.not_found]]
    /\ import_pc' = "returned"
    /\ UNCHANGED <<batchVars, playlistVars, reviewVars, api_calls>>
    /\ UNCHANGED <<retryVars, addVars, libVars>>

\* An exception of the playlist step leaves the handler.
ImportRaise ==
    /\ import_pc = "playlist" /\ playlist_pc = "raised"
    /\ import_pc' = "raised"
    /\ UNCHANGED import_result
    /\ UNCHANGED <<batchVars, playlistVars, reviewVars, api_calls>>
    /\ UNCHANGED <<retryVars, addVars, libVars>>

InitImport ==
    /\ InitImportVars /\ IdlePlaylist /\ IdleReview /\ api_calls = <<>>
    /\ IdleRetry /\ IdleAdd /\ IdleLibrary
NextImport ==
    \/ ImportStart
    \/ PrimaryQuery \/ TitleOnlyQuery \/ SimplifiedQuery \/ RecordResult \/ Summarize
    \/ ImportCreate
    \/ Collect \/ CreatePlaylist \/ AddTracks
    \/ ImportReturn \/ ImportRaise
SpecImport == InitImport /\ [][NextImport]_vars

-----------------------------------------------------------------------------
(* Claims about import_and_create_playlist *)

\* C18: when the CSV parses to no song the handler returns success = false
\* with an error at once: the batch search is not entered and no gateway call
\* is made, and the playlist step is not entered and no playlist is created.
C18_EmptyInputRejected ==
    songs = <<>> /\ import_pc # "start" =>
        /\ import_pc = "returned"
        /\ import_result.success = FALSE
        /\ "error" \in DOMAIN import_result
        /\ batch_pc = "idle" /\ pacing = "none" /\ issued = <<>>
        /\ search_results = EmptyReport
        /\ playlist_pc = "idle"
        /\ api_calls = <<>>

C18_Witness ==
    /\ songs = <<>>
    /\ import_pc = "returned"
    /\ import_result = NoSongsError

\* For comparison: a list of two songs went through search and playlist.
C18_WitnessImported ==
    /\ Len(songs) = 2
    /\ import_pc = "returned"
    /\ import_result.playlist_result.success = TRUE
    /\ import_result.search_summary.total = 2
    /\ PlaylistsCreated = 1

-----------------------------------------------------------------------------
(* Claims about the success results of the playlist handlers *)

\* C21: a result with success = true of create_playlist_from_search_results
\* or of add_reviewed_tracks reports at least one track added, and
\* create_playlist_from_search_results, however it ends, has added a track to
\* the playlist it created.
C21_SuccessMeansAdded ==
    /\ (playlist_pc = "returned" /\ playlist_result.success) =>
            playlist_result.tracks_added >= 1
    /\ (review_pc = "returned" /\ review_result.success) =>
            review_result.tracks_added >= 1
    /\ (playlist_pc \in {"returned", "raised"} /\ PlaylistsCreated >= 1) =>
            SentUris # <<>>

\* The input positions of the songs the import added to the playlist, and of
\* the songs its result lists under needs_review.
AddedSongs ==
    IF import_result.playlist_result.success THEN Elems(track_pos) ELSE {}
ListedSongs ==
    LET nr == import_result.needs_review
    IN  Elems(PosOf(nr.medium_confidence)) \cup Elems(PosOf(nr.low_confidence))
            \cup Elems(PosOf(nr.not_found))

\* C22: in the result of an import, for each of the values "high",
\* "high_medium" and "all" of include_confidence, every parsed song is either
\* added to the playlist or listed under needs_review, and none is both.
C22_EverySongAccounted ==
    (/\ import_pc = "returned" /\ songs # <<>>
     /\ include_confidence \in {"high", "high_medium", "all"}) =>
        \A k \in 1..Len(songs) : (k \in AddedSongs) # (k \in ListedSongs)

=============================================================================
